---- MODULE Spec2Model ----
(***************************************************************************)
(* Model of fetch_qrz_data.py: the reconciliation of a local table of      *)
(* amateur-radio operators (tbl_Operator) against the QRZ.com lookup       *)
(* service.  Strings are sequences of one-character strings, so that the   *)
(* string conversions of the program (upper, title, split, re.sub) are     *)
(* computed as the program computes them.                                   *)
(***************************************************************************)
EXTENDS Integers, Sequences, FiniteSets, TLC

(***************************************************************************)
(* Characters and the str methods the program uses.                        *)
(***************************************************************************)
LowerLetters == <<"a", "b", "c", "d", "e", "f", "g", "h", "i", "j", "k", "l", "m",
                  "n", "o", "p", "q", "r", "s", "t", "u", "v", "w", "x", "y", "z">>

UpperLetters == <<"A", "B", "C", "D", "E", "F", "G", "H", "I", "J", "K", "L", "M",
                  "N", "O", "P", "Q", "R", "S", "T", "U", "V", "W", "X", "Y", "Z">>

Digits == {"0", "1", "2", "3", "4", "5", "6", "7", "8", "9"}

IsLower(c) == \E i \in DOMAIN LowerLetters : LowerLetters[i] = c

IsUpper(c) == \E i \in DOMAIN UpperLetters : UpperLetters[i] = c

IsCased(c) == IsLower(c) \/ IsUpper(c)

IsSpace(c) == c = " "

UpperChar(c) ==
    IF IsLower(c)
    THEN UpperLetters[CHOOSE i \in DOMAIN LowerLetters : LowerLetters[i] = c]
    ELSE c

LowerChar(c) ==
    IF IsUpper(c)
    THEN LowerLetters[CHOOSE i \in DOMAIN UpperLetters : UpperLetters[i] = c]
    ELSE c

\* The element of a set of one element.  In {e(s) : s \in {str}} the text str
\* is evaluated once, before e works on it.
The(S) == CHOOSE r \in S : TRUE

\* str.upper()
StrUpper(str) == The({[i \in 1..Len(s) |-> UpperChar(s[i])] : s \in {str}})

\* str.lower()
StrLower(str) == The({[i \in 1..Len(s) |-> LowerChar(s[i])] : s \in {str}})

\* str.title(): a cased character is upper-cased when it follows an uncased
\* character (or starts the string) and lower-cased when it follows a cased one.
StrTitle(str) ==
    The({[i \in 1..Len(s) |->
             IF IsCased(s[i])
             THEN IF i > 1 /\ IsCased(s[i - 1]) THEN LowerChar(s[i]) ELSE UpperChar(s[i])
             ELSE s[i]] : s \in {str}})

\* The pieces of s from position i on, cur being the piece begun before i.
RECURSIVE SplitAcc(_, _, _, _)
SplitAcc(s, sep, i, cur) ==
    IF i > Len(s) THEN <<cur>>
    ELSE IF s[i] = sep THEN <<cur>> \o SplitAcc(s, sep, i + 1, <<>>)
    ELSE SplitAcc(s, sep, i + 1, Append(cur, s[i]))

\* str.split(sep) for a one-character sep: every sep cuts, empty pieces are kept.
SplitOn(str, sep) == The({SplitAcc(s, sep, 1, <<>>) : s \in {str}})

\* str.split() without argument: cuts at runs of whitespace, no empty pieces.
SplitWords(str) == SelectSeq(SplitOn(str, " "), LAMBDA w : w # <<>>)

\* The words from the i-th on, sep between them.
RECURSIVE JoinFrom(_, _, _)
JoinFrom(words, sep, i) ==
    IF i > Len(words) THEN <<>>
    ELSE IF i = Len(words) THEN words[i]
    ELSE words[i] \o <<sep>> \o JoinFrom(words, sep, i + 1)

\* sep.join(words) for a one-character sep.
StrJoin(list, sep) == The({JoinFrom(words, sep, 1) : words \in {list}})

\* The length of s without the characters c at its end, n being such a length.
RECURSIVE RStripLen(_, _, _)
RStripLen(s, c, n) == IF n > 0 /\ s[n] = c THEN RStripLen(s, c, n - 1) ELSE n

\* str.rstrip(c) for a one-character c.
RStrip(str, c) == The({SubSeq(s, 1, RStripLen(s, c, Len(s))) : s \in {str}})

\* The number of digits of s from position i on.
RECURSIVE DigitRun(_, _)
DigitRun(s, i) ==
    IF i <= Len(s) /\ s[i] \in Digits THEN 1 + DigitRun(s, i + 1) ELSE 0

\* Whether the pattern /SK\d+ matches s at position i.
MatchesSK(s, i) ==
    /\ i + 3 <= Len(s)
    /\ s[i] = "/" /\ s[i + 1] = "S" /\ s[i + 2] = "K"
    /\ s[i + 3] \in Digits

\* The text of s from position i on without the matches of /SK\d+: a match
\* is dropped with all its digits and the scan goes on behind it.
RECURSIVE SubSK(_, _)
SubSK(s, i) ==
    IF i > Len(s) THEN <<>>
    ELSE IF MatchesSK(s, i) THEN SubSK(s, i + 3 + DigitRun(s, i + 3))
    ELSE <<s[i]>> \o SubSK(s, i + 1)

\* process_callsign, line 177: re.sub(r'/SK\d+', '', callsign.upper()), one
\* scan from the left over the upper-cased text.
CleanCallsign(callsign) == The({SubSK(s, 1) : s \in {StrUpper(callsign)}})

\* Whether s holds a match of /SK\d+ anywhere.
HasSKSuffix(s) == \E i \in 1..Len(s) : MatchesSK(s, i)

\* normalize_first_name: the comparison form of a first name.
normalize_first_name(name) ==
    The({The({IF Len(parts) > 1 /\ Len(parts[1]) = 1
              THEN StrJoin(Tail(parts), " ")
              ELSE n : parts \in {SplitOn(n, " ")}}) :
            n \in {StrTitle(StrJoin(SplitWords(name), " "))}})

\* normalize_name: the first word of a name.
normalize_name(name) == SplitOn(StrJoin(SplitWords(name), " "), " ")[1]

(***************************************************************************)
(* Configuration, dates and records.                                        *)
(***************************************************************************)
\* config.get('non_update_statuses', ['SK', 'SILENT KEY'])
NON_UPDATE_STATUSES == {"SK", "SILENT KEY"}

\* The day on which the program runs, as a day number.
Today == 2

\* The number of identifiers handed to process_callsign in one behaviour.
MaxCalls == 1

\* The length of the list of a bulk run.
MaxList == 2

\* The length of an identifier typed on the command line.
MaxIdLen == 8

\* The days a license can end on: before, on and after the day of the run.
Days == {Today - 1, Today, Today + 1}

\* A moment: a day and whether the time of day is past 00:00:00.000000.
Moments == [day : {Today}, late : BOOLEAN]

\* a < b on datetime values.
Before(a, b) == a.day < b.day \/ (a.day = b.day /\ ~a.late /\ b.late)

\* The expdate field of a fetched record: absent (None), text that is no
\* %Y-%m-%d date, or a date.
NoLicenseEnd == [kind |-> "none", day |-> 0]

BadLicenseEnd == [kind |-> "bad", day |-> 0]

DateString(d) == [kind |-> "date", day |-> d]

\* A parse that raises on None only and takes any text for a date.
StrptimeRaisesOnNoneOnly(license_end) == license_end.kind = "none"

\* datetime.strptime(license_end, '%Y-%m-%d') raises TypeError on None and
\* ValueError on text that is no date.
StrptimeRaises(license_end) == license_end.kind # "date"

\* datetime.strptime(license_end, '%Y-%m-%d'): midnight of that day.
Strptime(license_end) == [day |-> license_end.day, late |-> FALSE]

\* datetime.now().strftime('%Y-%m-%d')
TodayDate(t) == DateString(t.day)

\* map_license_class; NoCode is the absent class field (None).
NoCode == "None"

\* A mapping whose default is Unknown.
map_license_class_unknown(class_code) ==
    CASE class_code = "E" -> "Extra"
      [] class_code = "G" -> "General"
      [] class_code = "T" -> "Technician"
      [] class_code = "A" -> "Advanced"
      [] class_code = "C" -> "Club"
      [] OTHER -> "Unknown"

map_license_class(class_code) ==
    CASE class_code = "E" -> "Extra"
      [] class_code = "G" -> "General"
      [] class_code = "T" -> "Technician"
      [] class_code = "A" -> "Advanced"
      [] class_code = "C" -> "Club"
      [] OTHER -> "Unknown Class"

\* Callsign.__init__: status defaults to 'Active'; parse_callsign_data never
\* passes one.
Callsign(call, first_name, last_name, address, license_end, license_class) ==
    [call |-> call, first_name |-> first_name, last_name |-> last_name,
     address |-> address, license_end |-> license_end,
     license_class |-> license_class, status |-> "Active"]

\* A row of tbl_Operator without its key Call.  Address stands for the columns
\* the program copies unread: Address_1, City, State, Zip, Lic-issued, E-Mail.
Row(first, last, address, lic_exp, class, status, updated) ==
    [FirstName |-> first, LastName |-> last, Address |-> address,
     LicExp |-> lic_exp, Class |-> class, Status |-> status, Updated |-> updated]

(***************************************************************************)
(* The persistence functions.  They work on the part of the state a call   *)
(* can change: st = [db, mismatch_log, status_log, console, conns].  fail   *)
(* is the place where pyodbc raises pyodbc.Error, if it does: in connect   *)
(* or in the first statement executed, or in commit.                       *)
(***************************************************************************)
DbFailPoints == {"none", "connect", "commit"}

\* conn = pyodbc.connect(...) succeeded in the function owner: one more
\* connection is open.
Connect(st, owner) == [st EXCEPT !.conns = Append(@, owner)]

\* A finally block that closes nothing.
Leak(st) == st

\* finally: if conn: conn.close().  The calls nest, so the connection of the
\* function that returns is the one opened last.
Close(st) == [st EXCEPT !.conns = SubSeq(@, 1, Len(@) - 1)]

Printed(st, line) == [st EXCEPT !.console = Append(@, line)]

\* Line 210 (and the same test at line 322).
ExpiredAt(license_end, t) == Before(Strptime(license_end), t)

\* A match on the first names alone.
FirstNamesMatch(row, callsign) ==
    normalize_first_name(RStrip(row.FirstName, ","))
        = normalize_first_name(callsign.first_name)

\* Line 228: the names of the row and of the fetched record match.
NamesMatch(row, callsign) ==
    /\ normalize_first_name(RStrip(row.FirstName, ","))
           = normalize_first_name(callsign.first_name)
    /\ StrLower(row.LastName) = StrLower(callsign.last_name)

\* Lines 250-254: the entry written to the mismatch log.
MismatchMessage(row, callsign) ==
    [call |-> callsign.call,
     first |-> normalize_name(StrLower(RStrip(row.FirstName, ",")))
                   # normalize_name(StrLower(callsign.first_name)),
     last |-> StrLower(row.LastName) # StrLower(callsign.last_name)]

\* Lines 233-245: the UPDATE statement.
UpdatedRow(callsign, status, t) ==
    Row(callsign.first_name, callsign.last_name, callsign.address,
        callsign.license_end, callsign.license_class, status, TodayDate(t))

\* An INSERT that writes the status computed at line 210.
InsertedRowWithComputedStatus(callsign, t) ==
    Row(callsign.first_name, callsign.last_name, callsign.address,
        callsign.license_end, callsign.license_class,
        IF Before([day |-> callsign.license_end.day, late |-> FALSE], t)
        THEN "License Expired" ELSE callsign.status,
        [kind |-> "date", day |-> t.day])

\* Lines 260-271: the INSERT statement.
InsertedRow(callsign, t) ==
    Row(callsign.first_name, callsign.last_name, callsign.address,
        callsign.license_end, callsign.license_class, "New", TodayDate(t))

\* No status is protected.
MayUpdateAny(db_status) == TRUE

\* Line 231: the status of the row lets the program write it.
MayUpdate(db_status) == db_status \notin NON_UPDATE_STATUSES

\* insert_or_update_callsign_in_db.  A write that is not committed is rolled
\* back when the connection closes.
insert_or_update_callsign_in_db(st, callsign, t, fail) ==
    IF fail = "connect" THEN Printed(st, "db_error")
    ELSE IF StrptimeRaises(callsign.license_end)
    THEN Close(Connect(st, "insert_or_update_callsign_in_db"))
    ELSE LET conn   == Connect(st, "insert_or_update_callsign_in_db")
             status == IF ExpiredAt(callsign.license_end, t)
                       THEN "License Expired" ELSE callsign.status
             exists == callsign.call \in DOMAIN st.db
             row    == st.db[callsign.call]
             logged == IF exists /\ ~NamesMatch(row, callsign)
                       THEN [conn EXCEPT !.mismatch_log =
                                Append(@, MismatchMessage(row, callsign))]
                       ELSE conn
             written ==
                 IF exists
                 THEN IF NamesMatch(row, callsign) /\ MayUpdate(row.Status)
                      THEN [conn EXCEPT !.db[callsign.call] =
                                UpdatedRow(callsign, status, t)]
                      ELSE logged
                 ELSE [conn EXCEPT !.db =
                          @ @@ (callsign.call :> InsertedRow(callsign, t))]
         IN  Close(IF fail = "commit" THEN Printed(logged, "db_error") ELSE written)

\* A deactivation that leaves the column Updated as it is.
deactivate_without_timestamp(st, callsign, t, fail) ==
    IF fail = "connect" THEN [st EXCEPT !.console = Append(@, "db_error")]
    ELSE IF callsign \in DOMAIN st.db /\ st.db[callsign].Status \notin NON_UPDATE_STATUSES
    THEN IF fail = "commit" THEN [st EXCEPT !.console = Append(@, "db_error")]
         ELSE [st EXCEPT !.db[callsign].Status = "Inactive"]
    ELSE st

\* update_callsign_status_to_inactive_if_needed
update_callsign_status_to_inactive_if_needed(st, callsign, t, fail) ==
    IF fail = "connect" THEN Printed(st, "db_error")
    ELSE LET conn == Connect(st, "update_callsign_status_to_inactive_if_needed")
         IN  Close(IF callsign \in DOMAIN st.db /\ MayUpdate(st.db[callsign].Status)
                   THEN IF fail = "commit" THEN Printed(conn, "db_error")
                        ELSE [conn EXCEPT !.db[callsign].Status = "Inactive",
                                          !.db[callsign].Updated = TodayDate(t)]
                   ELSE conn)

\* Line 322: an uncaught TypeError or ValueError leaves check_callsign_status.
CheckRaises(st, callsign, parsed_data, fail) ==
    /\ fail # "connect"
    /\ callsign \in DOMAIN st.db
    /\ StrptimeRaises(parsed_data.license_end)

\* Line 322
ExpectedStatus(license_end, t) ==
    IF ExpiredAt(license_end, t) THEN "License Expired" ELSE "Active"

\* check_callsign_status, when it returns.  inner_fail is where the nested
\* insert_or_update_callsign_in_db fails; the function itself only reads.
check_callsign_status(st, callsign, parsed_data, upd, t, fail, inner_fail) ==
    IF fail = "connect" THEN Printed(st, "db_error")
    ELSE IF callsign \notin DOMAIN st.db THEN Close(Connect(st, "check_callsign_status"))
    ELSE LET conn == Connect(st, "check_callsign_status")
             db_status == st.db[callsign].Status
             expected_status == ExpectedStatus(parsed_data.license_end, t)
             noted == [conn EXCEPT !.status_log =
                          Append(@, [call |-> callsign,
                                     expected |-> expected_status,
                                     found |-> db_status])]
         IN  Close(IF db_status = expected_status THEN conn
                   ELSE IF upd /\ MayUpdate(db_status)
                        THEN insert_or_update_callsign_in_db(noted, parsed_data, t,
                                                             inner_fail)
                        ELSE noted)

\* check_callsign_status, when strptime raises at line 322: the finally block
\* runs and process_callsign reports the error (line 198).
check_callsign_status_raises(st) ==
    Printed(Close(Connect(st, "check_callsign_status")), "fetch_error")

(***************************************************************************)
(* The values the model draws its inputs from.                              *)
(***************************************************************************)
\* The identifiers given on the command line or in the file, before main
\* upper-cases them, and the keys Call of tbl_Operator.
K1 == <<"K", "1">>

K1SK == <<"K", "1", "/", "S", "K", "2">>

K2 == <<"K", "2">>

RawCallsigns == {<<"k", "1">>, K2}

\* First and last names as parse_callsign_data hands them on, and as an
\* operator typed them into the table.
Ab == <<"A", "b">>

FetchedNames ==
    {<<Ab, Ab>>, <<<<"B", " ", "A", "b">>, Ab>>, <<<<"A", "b", ",">>, Ab>>,
     <<Ab, <<"B", "a">>>>}

LicenseEnds == {NoLicenseEnd, BadLicenseEnd} \cup {DateString(d) : d \in Days}

\* What get_callsign_data and parse_callsign_data can hand to process_callsign
\* for the identifier call.
FetchedRecords(call) ==
    {Callsign(call, n[1], n[2], "new address", e, map_license_class("G")) :
        n \in FetchedNames, e \in LicenseEnds}
    \cup {Callsign(call, Ab, Ab, "new address", DateString(Today + 1),
                   map_license_class(NoCode))}

\* The fewer records a bulk run draws from.
FewRecords(call) ==
    {Callsign(call, Ab, Ab, "new address", NoLicenseEnd, map_license_class("G")),
     Callsign(call, Ab, Ab, "new address", DateString(Today - 1), map_license_class("G")),
     Callsign(call, Ab, <<"B", "a">>, "new address", DateString(Today + 1),
              map_license_class("G"))}

\* The rows the table holds before the first run.
StoredRow(first, status) ==
    Row(first, <<"A", "B">>, "old address", DateString(Today + 1), "General",
        status, DateString(Today - 1))

StoredRows ==
    {StoredRow(Ab, "Active"), StoredRow(Ab, "SK"),
     StoredRow(<<"A", "b", ",">>, "Active"), StoredRow(<<"A", "b", " ", "B">>, "Active")}

InitialTables ==
    {t \in UNION {[keys -> StoredRows] : keys \in SUBSET {K1, K1SK}} :
        K1SK \in DOMAIN t =>
            /\ t[K1SK] = StoredRow(Ab, "SK")
            /\ K1 \in DOMAIN t => t[K1] = StoredRow(Ab, "Active")}

\* The fewer tables a bulk run starts on.
BulkTables == {t \in InitialTables : \A k \in DOMAIN t : t[k].FirstName = Ab}

\* The sequences over S of length 1..n.
SeqsUpTo(S, n) == UNION {[1..k -> S] : k \in 1..n}

\* The orders in which SELECT Call FROM tbl_Operator can list the keys.
Orders(keys) ==
    {q \in [1..Cardinality(keys) -> keys] : \A k \in keys : \E i \in DOMAIN q : q[i] = k}

(***************************************************************************)
(* The state.                                                               *)
(***************************************************************************)
VARIABLES
    db,               \* tbl_Operator: Call -> row
    mismatch_log,     \* the entries appended to the Mismatch-*.txt files
    status_log,       \* the entries appended to the status-*.txt files
    console,          \* the error lines printed for the current identifier
    now,              \* datetime.now()
    pc,               \* "idle", or where the run stands: "loop", "check", "update"
    callsigns,        \* the identifiers of the run, in order
    idx,              \* the position of the loop in callsigns
    handed,           \* the identifiers handed to process_callsign in this run
    update,           \* --update
    checkstatus,      \* --checkstatus
    cleaned_callsign, \* process_callsign's cleaned_callsign, <<c>> or <<>>
    parsed_data,      \* process_callsign's parsed_data, <<r>> or <<>>
    calls,            \* the identifiers handed to process_callsign so far
    lookup,           \* what get_callsign_data did for the current identifier:
                      \* "found", "not_found", "error", or "none" before it
    conns,            \* the open pyodbc connections, by the function that opened them
    mode,             \* the mode of the run: "callsign", "file", "refresh", or "none"
    session_keys,     \* the session keys get_qrz_session_key returned in this run
    session_key,      \* the session_key handed to process_callsign, <<k>> or <<>>
    lookup_keys,      \* the session keys get_callsign_data was called with in this run
    callsign_data     \* the text get_callsign_data returned, <<text>> or <<>>

vars == <<db, mismatch_log, status_log, console, now, pc, callsigns, idx, handed,
          update, checkstatus, cleaned_callsign, parsed_data, calls, lookup,
          conns, mode, session_keys, session_key, lookup_keys, callsign_data>>

\* What a run keeps from its start to its end.
session == <<mode, session_keys, session_key, callsign_data>>

store == [db |-> db, mismatch_log |-> mismatch_log, status_log |-> status_log,
          console |-> console, conns |-> conns]

\* The state a persistence function leaves becomes the state of the program.
Stored(result) ==
    \E st \in {result} :
        /\ db' = st.db
        /\ mismatch_log' = st.mismatch_log
        /\ status_log' = st.status_log
        /\ console' = st.console
        /\ conns' = st.conns

Init ==
    /\ db \in InitialTables
    /\ mismatch_log = <<>>
    /\ status_log = <<>>
    /\ console = <<>>
    /\ now = [day |-> Today, late |-> FALSE]
    /\ pc = "idle"
    /\ callsigns = <<>>
    /\ idx = 1
    /\ handed = <<>>
    /\ update = FALSE
    /\ checkstatus = FALSE
    /\ cleaned_callsign = <<>>
    /\ parsed_data = <<>>
    /\ calls = 0
    /\ lookup = "none"
    /\ conns = <<>>
    /\ mode = "none"
    /\ session_keys = <<>>
    /\ session_key = <<>>
    /\ lookup_keys = {}
    /\ callsign_data = <<>>


(***************************************************************************)
(* main: the three modes.                                                   *)
(***************************************************************************)
\* get_qrz_session_key: the service opens a session at every login and
\* returns its key; obtained are the keys of the run so far.
get_qrz_session_key(obtained) == Len(obtained) + 1

\* The keys obtained when the loop starts: main logs in at line 426, whatever
\* the mode, and refresh_database logs in again at line 345.
KeysObtained(m) ==
    IF m = "refresh"
    THEN <<get_qrz_session_key(<<>>), get_qrz_session_key(<<get_qrz_session_key(<<>>)>>)>>
    ELSE <<get_qrz_session_key(<<>>)>>

\* The run starts in mode m on the identifiers list with the flags upd and
\* chk.  refresh_database holds its own connection while it loops.
StartRun(m, list, upd, chk) ==
    /\ pc = "idle"
    /\ pc' = "loop"
    /\ mode' = m
    /\ session_keys' = KeysObtained(m)
    /\ session_key' = <<KeysObtained(m)[Len(KeysObtained(m))]>>
    /\ lookup_keys' = {}
    /\ conns' = IF m = "refresh" THEN <<"refresh_database">> ELSE <<>>
    /\ UNCHANGED callsign_data
    /\ callsigns' = list
    /\ idx' = 1
    /\ handed' = <<>>
    /\ update' = upd
    /\ checkstatus' = chk
    /\ console' = <<>>
    /\ cleaned_callsign' = <<>>
    /\ parsed_data' = <<>>
    /\ lookup' = "none"
    /\ UNCHANGED <<db, mismatch_log, status_log, now, calls>>

\* main, lines 441-443: --callsign
MainCallsign ==
    \E arg \in RawCallsigns, upd \in BOOLEAN, chk \in BOOLEAN :
        /\ calls < MaxCalls
        /\ StartRun("callsign", <<StrUpper(arg)>>, upd, chk)

\* main, lines 435-440: --file
MainFile ==
    \E lines \in SeqsUpTo(RawCallsigns, MaxCalls), upd \in BOOLEAN, chk \in BOOLEAN :
        /\ calls + Len(lines) <= MaxCalls
        /\ StartRun("file", [i \in DOMAIN lines |-> StrUpper(lines[i])], upd, chk)

\* main, lines 432-433, and refresh_database, lines 349-351: the identifiers
\* are the keys of the table, as they are stored.
MainRefresh ==
    \E list \in Orders(DOMAIN db), upd \in BOOLEAN, chk \in BOOLEAN :
        /\ calls + Len(list) <= MaxCalls
        /\ StartRun("refresh", list, upd, chk)

(***************************************************************************)
(* process_callsign.                                                        *)
(***************************************************************************)
\* The loop goes on to the next identifier.
NextCallsign ==
    /\ pc' = "loop"
    /\ idx' = idx + 1
    /\ cleaned_callsign' = <<>>
    /\ parsed_data' = <<>>

\* Lines 177-189: the identifier is cleaned, and its record fetched and parsed.
Begin(cleaned) ==
    /\ pc = "loop"
    /\ idx <= Len(callsigns)
    /\ cleaned = CleanCallsign(callsigns[idx])
    /\ handed' = Append(handed, callsigns[idx])
    /\ calls' = calls + 1
    /\ lookup_keys' = lookup_keys \cup {session_key[1]}
    /\ UNCHANGED <<now, callsigns, update, checkstatus, session>>

\* The identifiers of the run as process_callsign cleans them.
Cleaned == {CleanCallsign(c) : c \in {callsigns[i] : i \in DOMAIN callsigns}}

\* Lines 179-193: the fetch and the parse succeed, with the record rec.
FetchedRecord(cleaned, rec) ==
    /\ Begin(cleaned)
    /\ lookup' = "found"
    /\ console' = <<>>
    /\ IF checkstatus \/ update
       THEN /\ pc' = IF checkstatus THEN "check" ELSE "update"
            /\ cleaned_callsign' = <<cleaned>>
            /\ parsed_data' = <<rec>>
            /\ idx' = idx
       ELSE NextCallsign
    /\ UNCHANGED <<db, mismatch_log, status_log, conns>>

Fetched ==
    \E cleaned \in Cleaned :
    \E rec \in FetchedRecords(cleaned) : FetchedRecord(cleaned, rec)

\* Lines 194-196: the lookup raises an error whose text holds "Not found".
NotFound ==
    \E cleaned \in Cleaned :
    \E fail \in DbFailPoints :
        /\ Begin(cleaned)
        /\ lookup' = "not_found"
        /\ Stored(update_callsign_status_to_inactive_if_needed(
                      [store EXCEPT !.console = <<>>], cleaned, now, fail))
        /\ NextCallsign

\* A handler that takes every error for "Not found".
FetchErrorDeactivates ==
    \E cleaned \in Cleaned :
        /\ Begin(cleaned)
        /\ lookup' = "error"
        /\ Stored(update_callsign_status_to_inactive_if_needed(
                      [store EXCEPT !.console = <<"fetch_error">>], cleaned, now, "none"))
        /\ NextCallsign

\* An error that is not caught in process_callsign and ends the run.
FetchErrorEndsRun ==
    \E cleaned \in Cleaned :
        /\ Begin(cleaned)
        /\ lookup' = "error"
        /\ console' = <<"fetch_error">>
        /\ pc' = "idle"
        /\ UNCHANGED <<db, mismatch_log, status_log, conns, idx, cleaned_callsign,
                       parsed_data>>

\* Lines 194-198: the lookup or the parse raises any other error.
FetchError ==
    \E cleaned \in Cleaned :
        /\ Begin(cleaned)
        /\ lookup' = "error"
        /\ console' = <<"fetch_error">>
        /\ NextCallsign
        /\ UNCHANGED <<db, mismatch_log, status_log, conns>>

\* Where process_callsign goes on after check_callsign_status returned.
AfterCheck ==
    IF update
    THEN /\ pc' = "update"
         /\ UNCHANGED <<idx, cleaned_callsign, parsed_data>>
    ELSE NextCallsign

\* Lines 190-191, and 194-198 when check_callsign_status raises.
CheckStatus ==
    /\ pc = "check"
    /\ \E fail \in {"none", "connect"}, inner_fail \in DbFailPoints :
          /\ fail = "connect" => inner_fail = "none"
          /\ IF CheckRaises(store, cleaned_callsign[1], parsed_data[1], fail)
             THEN /\ Stored(check_callsign_status_raises(store))
                  /\ NextCallsign
             ELSE /\ Stored(check_callsign_status(store, cleaned_callsign[1],
                               parsed_data[1], update, now, fail, inner_fail))
                  /\ AfterCheck
    /\ UNCHANGED <<now, callsigns, handed, update, checkstatus, calls, lookup,
                   session, lookup_keys>>

\* Lines 192-193
Update ==
    /\ pc = "update"
    /\ \E fail \in DbFailPoints :
          Stored(insert_or_update_callsign_in_db(store, parsed_data[1], now, fail))
    /\ NextCallsign
    /\ UNCHANGED <<now, callsigns, handed, update, checkstatus, calls, lookup,
                   session, lookup_keys>>

\* The loop of main or of refresh_database is through; refresh_database
\* closes its connection (lines 364-366).
EndRun ==
    /\ pc = "loop"
    /\ idx > Len(callsigns)
    /\ pc' = "idle"
    /\ conns' = IF mode = "refresh" THEN Tail(conns) ELSE conns
    /\ UNCHANGED <<db, mismatch_log, status_log, console, now, callsigns, idx, handed,
                   update, checkstatus, cleaned_callsign, parsed_data, calls, lookup,
                   session, lookup_keys>>

\* Time passes between two identifiers or two runs: midnight is over.
Tick ==
    /\ pc \in {"idle", "loop"}
    /\ ~now.late
    /\ now' = [now EXCEPT !.late = TRUE]
    /\ UNCHANGED <<db, mismatch_log, status_log, console, pc, callsigns, idx, handed,
                   update, checkstatus, cleaned_callsign, parsed_data, calls, lookup,
                   conns, session, lookup_keys>>

Step == Fetched \/ NotFound \/ FetchError \/ CheckStatus \/ Update \/ EndRun

Next ==
    \/ MainCallsign
    \/ MainFile
    \/ MainRefresh
    \/ Fetched
    \/ NotFound
    \/ FetchError
    \/ CheckStatus
    \/ Update
    \/ EndRun
    \/ Tick

Spec == Init /\ [][Next]_vars

(***************************************************************************)
(* A bulk run: one run of main over a file or over the whole table, with   *)
(* longer lists and fewer fetched records.                                  *)
(***************************************************************************)
BulkFile ==
    \E lines \in SeqsUpTo(RawCallsigns, MaxList), upd \in BOOLEAN, chk \in BOOLEAN :
        /\ calls = 0
        /\ StartRun("file", [i \in DOMAIN lines |-> StrUpper(lines[i])], upd, chk)

BulkRefresh ==
    \E list \in Orders(DOMAIN db), upd \in BOOLEAN, chk \in BOOLEAN :
        /\ calls = 0
        /\ StartRun("refresh", list, upd, chk)

BulkFetched ==
    \E cleaned \in Cleaned :
    \E rec \in FewRecords(cleaned) : FetchedRecord(cleaned, rec)

BulkStep == BulkFetched \/ NotFound \/ FetchError \/ CheckStatus \/ Update \/ EndRun

BulkNext ==
    \/ BulkFile
    \/ BulkRefresh
    \/ BulkFetched
    \/ NotFound
    \/ FetchError
    \/ CheckStatus
    \/ Update
    \/ EndRun
    \/ Tick

BulkInit == Init /\ db \in BulkTables

\* The program goes on: every call it makes returns, so a step of the run that
\* can be taken is taken.
BulkSpec == BulkInit /\ [][BulkNext]_vars /\ WF_vars(BulkStep)

(***************************************************************************)
(* The identifier of a run with --callsign: it is typed character by       *)
(* character, upper-cased by main and cleaned by process_callsign.         *)
(***************************************************************************)
TypedChars == {"/", "s", "k", "1"}

TypeInit ==
    /\ Init
    /\ db = <<>>

\* One more character of the argument of --callsign.
TypeChar ==
    /\ pc = "idle"
    /\ \E c \in TypedChars :
          callsigns' = IF callsigns = <<>> THEN <<<<c>>>> ELSE <<Append(callsigns[1], c)>>
    /\ callsigns # <<>> => Len(callsigns[1]) < MaxIdLen
    /\ UNCHANGED <<db, mismatch_log, status_log, console, now, pc, idx, handed,
                   update, checkstatus, cleaned_callsign, parsed_data, calls, lookup,
                   conns, session, lookup_keys>>

\* main, line 443, and process_callsign, line 177, on the typed argument.
CleanTyped ==
    /\ pc = "idle"
    /\ callsigns # <<>>
    /\ pc' = "cleaned"
    /\ cleaned_callsign' = <<CleanCallsign(StrUpper(callsigns[1]))>>
    /\ UNCHANGED <<db, mismatch_log, status_log, console, now, callsigns, idx, handed,
                   update, checkstatus, parsed_data, calls, lookup,
                   conns, session, lookup_keys>>

TypeNext == TypeChar \/ CleanTyped

TypeSpec == TypeInit /\ [][TypeNext]_vars

(***************************************************************************)
(* The response of the lookup service and its parse: get_callsign_data     *)
(* returns a text, extract_xml_value cuts the fields out of it and         *)
(* parse_callsign_data makes the record of them.                           *)
(***************************************************************************)
\* A value that can be None: the text counts only when some is TRUE.
Absent == [some |-> FALSE, text |-> <<>>]

Present(text) == [some |-> TRUE, text |-> text]

\* The truth value Python gives to None and to a string.
Truthy(v) == v.some /\ v.text # <<>>

\* str.find(sub): the lowest index, counted from 0, at which sub starts in s,
\* or -1.
Find(s, sub) ==
    LET at == {i \in 0..(Len(s) - Len(sub)) : SubSeq(s, i + 1, i + Len(sub)) = sub}
    IN  IF at = {} THEN -1 ELSE CHOOSE i \in at : \A j \in at : i <= j

\* s[start:end] for indices that are not negative.
Slice(s, start, end) ==
    IF start >= end \/ start >= Len(s) THEN <<>>
    ELSE SubSeq(s, start + 1, IF end > Len(s) THEN Len(s) ELSE end)

\* The length of the run of spaces at the start of s, from position i on.
RECURSIVE LStripLen(_, _)
LStripLen(s, i) == IF i <= Len(s) /\ IsSpace(s[i]) THEN 1 + LStripLen(s, i + 1) ELSE 0

\* The length of s without the spaces at its end, n being such a length.
RECURSIVE RStripSpaceLen(_, _)
RStripSpaceLen(s, n) == IF n > 0 /\ IsSpace(s[n]) THEN RStripSpaceLen(s, n - 1) ELSE n

\* str.strip()
Strip(s) == SubSeq(s, LStripLen(s, 1) + 1, RStripSpaceLen(s, Len(s)))

\* f'<{field}>' and f'</{field}>'
StartMarker(field) == <<"<">> \o field \o <<">">>

EndMarker(field) == <<"<", "/">> \o field \o <<">">>

\* extract_xml_value
extract_xml_value(xml_data, field) ==
    LET start == Find(xml_data, StartMarker(field)) + Len(StartMarker(field))
        end   == Find(xml_data, EndMarker(field))
    IN  IF start # -1 /\ end # -1 THEN Present(Slice(xml_data, start, end)) ELSE Absent

\* The field names parse_callsign_data asks for.
FNAME == <<"f", "n", "a", "m", "e">>

NAME == <<"n", "a", "m", "e">>

CLASS == <<"c", "l", "a", "s", "s">>

EXPDATE == <<"e", "x", "p", "d", "a", "t", "e">>

ADDR1 == <<"a", "d", "d", "r", "1">>

\* The text of a date, as the service writes the day d of the month of the run.
DateText(d) ==
    <<"2", "0", "2", "6", "-", "1", "1", "-", "0">>
        \o <<(<<"0", "1", "2", "3", "4", "5", "6", "7", "8", "9">>)[d + 1]>>

\* Lines 148-150, as datetime.strptime will take the text: None, a date, or
\* text that is no date.
LicenseEndOf(v) ==
    IF ~v.some THEN NoLicenseEnd
    ELSE IF v.text = <<>> THEN BadLicenseEnd
    ELSE LET first == SplitOn(v.text, " ")[1]
         IN  IF \E d \in Days : first = DateText(d)
             THEN DateString(CHOOSE d \in Days : first = DateText(d))
             ELSE BadLicenseEnd

\* The key class_map is asked for: its keys are single characters, so any
\* other text, here "", is no key of it.
ClassCodeOf(v) ==
    IF ~v.some THEN NoCode ELSE IF Len(v.text) = 1 THEN v.text[1] ELSE ""

\* Lines 118-138: whether the handling of the names raises AttributeError:
\* in either branch a method of last_name is called (split at 127, title at
\* 133), and last_name is None when the name field is.
NamesRaise(first_name, last_name) == ~last_name.some

\* Line 122-123
CutLastName(last_name) ==
    IF Truthy(last_name) THEN Strip(SplitOn(last_name.text, ",")[1]) ELSE last_name.text

\* Lines 126-138: the first name and the last name of the record.
ParsedNames(first_name, last_name) ==
    LET last == CutLastName(last_name)
    IN  IF ~Truthy(first_name)
        THEN LET name_parts == SplitOn(last, " ")
             IN  [first_name |-> name_parts[1],
                  last_name  |-> IF Len(name_parts) > 1
                                 THEN StrJoin(Tail(name_parts), " ")
                                 ELSE name_parts[1]]
        ELSE LET titled == StrTitle(first_name.text)
                 words  == SplitWords(titled)
             IN  [first_name |-> IF words # <<>>
                                 THEN StrJoin(<<words[1]>> \o
                                          SelectSeq(Tail(words), LAMBDA w : Len(w) > 1),
                                          " ")
                                 ELSE titled,
                  last_name  |-> StrTitle(last)]

\* parse_callsign_data, when it returns.  The call field is overwritten at
\* line 186 with the cleaned identifier.
parse_callsign_data(xml_data, cleaned) ==
    LET names == ParsedNames(extract_xml_value(xml_data, FNAME),
                             extract_xml_value(xml_data, NAME))
    IN  Callsign(cleaned, names.first_name, names.last_name,
                 extract_xml_value(xml_data, ADDR1),
                 LicenseEndOf(extract_xml_value(xml_data, EXPDATE)),
                 map_license_class(ClassCodeOf(extract_xml_value(xml_data, CLASS))))

\* <field>text</field>
Element(field, text) == StartMarker(field) \o text \o EndMarker(field)

\* The number of pieces a response is made of.
MaxPieces == 3

\* The pieces of a response: whole fields, a first name of spaces only, a
\* last name that starts with a comma, a class code that is no key, and
\* fields cut off at either end.
Pieces ==
    {Element(FNAME, <<"a", "b">>),
     Element(FNAME, <<" ">>),
     Element(NAME, <<"c", "d">>),
     Element(NAME, <<",", "j", "r">>),
     Element(CLASS, <<"G">>),
     Element(CLASS, <<"X">>),
     Element(EXPDATE, DateText(Today + 1)),
     <<"a", "b">> \o EndMarker(FNAME),
     StartMarker(NAME) \o <<"c", "d">>}

\* The pieces of q, one after the other.
RECURSIVE Concat(_)
Concat(q) == IF q = <<>> THEN <<>> ELSE Head(q) \o Concat(Tail(q))

\* The responses get_callsign_data can return.
Responses == {Concat(q) : q \in SeqsUpTo(Pieces, MaxPieces)} \cup {<<>>}

\* Line 181: the service answers the lookup of K1.
Receive ==
    /\ pc = "idle"
    /\ pc' = "received"
    /\ \E text \in Responses : callsign_data' = <<text>>
    /\ cleaned_callsign' = <<K1>>
    /\ UNCHANGED <<db, mismatch_log, status_log, console, now, callsigns, idx, handed,
                   update, checkstatus, parsed_data, calls, lookup,
                   conns, mode, session_keys, session_key, lookup_keys>>

\* Lines 183-186, and 194-198 when parse_callsign_data raises.
Parse ==
    /\ pc = "received"
    /\ IF NamesRaise(extract_xml_value(callsign_data[1], FNAME),
                     extract_xml_value(callsign_data[1], NAME))
       THEN /\ pc' = "raised"
            /\ console' = <<"fetch_error">>
            /\ UNCHANGED parsed_data
       ELSE /\ pc' = "parsed"
            /\ parsed_data' = <<parse_callsign_data(callsign_data[1], cleaned_callsign[1])>>
            /\ UNCHANGED console
    /\ UNCHANGED <<db, mismatch_log, status_log, now, callsigns, idx, handed,
                   update, checkstatus, cleaned_callsign, calls, lookup,
                   conns, session, lookup_keys>>

ParseNext == Receive \/ Parse

\* No record is stored when the response arrives.
ParseInit == Init /\ db = <<>>

ParseSpec == ParseInit /\ [][ParseNext]_vars

(***************************************************************************)
(* Repeated runs: the program is run with --callsign K2 --update again and *)
(* again, on a table that does not hold K2 at first.                       *)
(***************************************************************************)
\* The number of runs.
MaxPasses == 3

\* What the service can answer: a plain first name, one with an initial in
\* front, one that ends in a comma, and a licenseEnd before, on and after the
\* day of the runs.
RepeatRecords(call) ==
    {Callsign(call, first, Ab, "new address", DateString(d), map_license_class("G")) :
        first \in {Ab, <<"J", " ", "A", "b">>, <<"A", "b", ",">>}, d \in Days}

RepeatCallsign ==
    /\ calls < MaxPasses
    /\ StartRun("callsign", <<StrUpper(K2)>>, TRUE, FALSE)

RepeatFetched ==
    \E cleaned \in Cleaned :
    \E rec \in RepeatRecords(cleaned) : FetchedRecord(cleaned, rec)

RepeatNext ==
    \/ RepeatCallsign
    \/ RepeatFetched
    \/ Update
    \/ EndRun
    \/ Tick

\* The table holds no record before the first run.
RepeatInit == Init /\ db = <<>>

RepeatSpec == RepeatInit /\ [][RepeatNext]_vars

(***************************************************************************)
(* The claims.                                                              *)
(***************************************************************************)
\* The identifier process_callsign works on after the step.
Current == CleanCallsign(handed'[Len(handed')])

\* The step hands the next identifier to process_callsign.
Begins == calls' = calls + 1

\* The step is the update pass of lines 192-193 and pyodbc raises nothing in it.
UpdatePass == pc = "update" /\ console' = console

\* The step is the status audit of lines 190-191 and pyodbc raises nothing in
\* it, nor in the update it calls.
AuditPass == pc = "check" /\ console' = console

\* C1: a record whose status is in NON_UPDATE_STATUSES when an operation
\* starts (update pass, status audit with or without corrective update,
\* not-found deactivation) is the same record, in every field, afterwards.
C1_ProtectedRecordUntouched ==
    [][\A k \in DOMAIN db :
          db[k].Status \in NON_UPDATE_STATUSES => k \in DOMAIN db' /\ db'[k] = db[k]]_vars

\* C1: the audit noted a discrepancy for a protected record, and the update
\* pass ran on it with a valid licenseEnd, matching names and no error: the
\* record is still there, protected.
C1_Witness ==
    /\ pc = "loop" /\ idx = 2 /\ lookup = "found"
    /\ update /\ checkstatus /\ console = <<>>
    /\ handed = <<K1>> /\ K1 \in DOMAIN db /\ db[K1].Status = "SK"
    /\ status_log # <<>> /\ mismatch_log = <<>>

\* C2: with a licenseEnd that is absent or no date, neither the status audit
\* nor the update pass inserts, updates or logs anything, whether or not the
\* record exists and whichever flags are set.
C2_InvalidLicenseEndNoAction ==
    [][(pc \in {"check", "update"} /\ parsed_data[1].license_end.kind # "date")
          => db' = db /\ mismatch_log' = mismatch_log /\ status_log' = status_log]_vars

\* C2: both flags set, the record exists and the licenseEnd is invalid: the
\* audit raised, which process_callsign reported, and the update pass was
\* skipped.
C2_Witness ==
    /\ pc = "loop" /\ idx = 2 /\ lookup = "found"
    /\ update /\ checkstatus /\ console = <<"fetch_error">>
    /\ handed = <<K1>> /\ K1 \in DOMAIN db
    /\ mismatch_log = <<>> /\ status_log = <<>>

\* C3: an update pass on an identifier without record and with a valid
\* licenseEnd inserts exactly one record, for that identifier, with the fetched
\* fields and the status New, also when the licenseEnd is in the past.
C3_InsertIsNew ==
    [][(UpdatePass /\ cleaned_callsign[1] \notin DOMAIN db
           /\ parsed_data[1].license_end.kind = "date")
          => /\ DOMAIN db' = DOMAIN db \cup {cleaned_callsign[1]}
             /\ \A k \in DOMAIN db : db'[k] = db[k]
             /\ db'[cleaned_callsign[1]] =
                    Row(parsed_data[1].first_name, parsed_data[1].last_name,
                        parsed_data[1].address, parsed_data[1].license_end,
                        parsed_data[1].license_class, "New", DateString(now.day))]_vars

\* C3: a record inserted as New whose licenseEnd is before the day of the run.
C3_Witness ==
    /\ pc = "loop" /\ idx = 2
    /\ K2 \in DOMAIN db /\ db[K2].Status = "New"
    /\ db[K2].LicExp = DateString(Today - 1)

\* C4: the names differ: the first names in the comparison form, the row's
\* taken as it is stored, or the last names without regard to case.
C4_NamesDifferAsStored(row, callsign) ==
    \/ normalize_first_name(row.FirstName) # normalize_first_name(callsign.first_name)
    \/ StrLower(row.LastName) # StrLower(callsign.last_name)

\* C4: the names differ, the trailing commas of the row's first name dropped
\* before the comparison form is taken.
C4_NamesDiffer(row, callsign) ==
    \/ normalize_first_name(RStrip(row.FirstName, ","))
           # normalize_first_name(callsign.first_name)
    \/ StrLower(row.LastName) # StrLower(callsign.last_name)

C5_NotFoundDeactivates ==
    [][(Begins /\ lookup' = "not_found" /\ console' = <<>>)
          => /\ IF Current \in DOMAIN db /\ db[Current].Status \notin NON_UPDATE_STATUSES
                THEN db' = [db EXCEPT ![Current].Status = "Inactive",
                                      ![Current].Updated = DateString(now.day)]
                ELSE db' = db
             /\ mismatch_log' = mismatch_log
             /\ status_log' = status_log]_vars

\* C5: K1 was not found and its record is Inactive, updated on the day of
\* the run.
C5_Witness ==
    /\ lookup = "not_found" /\ console = <<>> /\ handed = <<K1>>
    /\ K1 \in DOMAIN db /\ db[K1].Status = "Inactive"
    /\ db[K1].Updated = DateString(Today)
    /\ db[K1].Address = "old address"

\* C6: whatever is typed as identifier, the identifier process_callsign looks
\* up and reads and writes the table with is upper-case, holds no match of
\* /SK followed by digits, and is left as it is by a second cleaning.
C6_CleanedIsClean ==
    pc = "cleaned" =>
        /\ cleaned_callsign[1] = StrUpper(cleaned_callsign[1])
        /\ ~HasSKSuffix(cleaned_callsign[1])
        /\ CleanCallsign(cleaned_callsign[1]) = cleaned_callsign[1]

\* C7: the identifiers handed to process_callsign are at any time the first
\* ones of the list, in its order, and a run that started ends with all of
\* them handed, whatever happened to each.
C7_AllHandedInOrder ==
    /\ [](Len(handed) <= Len(callsigns) /\ handed = SubSeq(callsigns, 1, Len(handed)))
    /\ (pc # "idle") ~> (pc = "idle" /\ handed = callsigns)

\* C7: the run over K1 and K2 is through: the names of K1 did not match, K2
\* was not found, and both were handed.
C7_Witness ==
    /\ pc = "idle" /\ callsigns = <<K1, K2>> /\ handed = callsigns
    /\ Len(mismatch_log) = 1 /\ mismatch_log[1].call = K1
    /\ lookup = "not_found"

\* C8: a lookup error that does not say "Not found" is reported and changes
\* neither the table nor the logs: no record is inserted, updated or made
\* Inactive.
C8_OtherErrorChangesNothing ==
    [][(Begins /\ lookup' = "error")
          => /\ console' = <<"fetch_error">>
             /\ db' = db
             /\ mismatch_log' = mismatch_log
             /\ status_log' = status_log]_vars

\* C8: the lookup of K1 failed with another error and its record, which is not
\* protected, is as the table started with it.
C8_Witness ==
    /\ lookup = "error" /\ console = <<"fetch_error">> /\ handed = <<K1>>
    /\ K1 \in DOMAIN db /\ db[K1] \in StoredRows /\ db[K1].Status = "Active"

\* naturalStatus as the specification states it: License Expired when the
\* licenseEnd is a day before the current date, else the carried status.
NaturalStatusByDate(callsign, t) ==
    IF callsign.license_end.day < t.day THEN "License Expired" ELSE callsign.status

\* C9: an update pass on an existing record whose names match and whose status
\* is not protected writes the fetched fields and the status naturalStatus,
\* which is License Expired exactly when the licenseEnd is before the current
\* date: a licenseEnd on the current date is written as Active.
C9_UpdateWritesNaturalStatus ==
    [][(UpdatePass /\ cleaned_callsign[1] \in DOMAIN db
           /\ parsed_data[1].license_end.kind = "date"
           /\ ~C4_NamesDiffer(db[cleaned_callsign[1]], parsed_data[1])
           /\ db[cleaned_callsign[1]].Status \notin NON_UPDATE_STATUSES)
          => db' = [db EXCEPT ![cleaned_callsign[1]] =
                      Row(parsed_data[1].first_name, parsed_data[1].last_name,
                          parsed_data[1].address, parsed_data[1].license_end,
                          parsed_data[1].license_class,
                          NaturalStatusByDate(parsed_data[1], now),
                          DateString(now.day))]]_vars

\* What a status audit may do, given what naturalStatus is: with a record and
\* a valid licenseEnd it appends one status entry exactly when the stored
\* status is not naturalStatus; it writes only on such a discrepancy, asked to
\* update and the status not protected, and then the row of the Update path,
\* names matching; without record it logs and writes nothing.
AuditDoes(natural) ==
    LET c == cleaned_callsign[1]
        rec == parsed_data[1]
        valid == rec.license_end.kind = "date"
    IN  /\ (AuditPass /\ c \in DOMAIN db /\ valid)
              => IF db[c].Status # natural
                 THEN status_log' = Append(status_log,
                          [call |-> c, expected |-> natural,
                           found |-> db[c].Status])
                 ELSE status_log' = status_log
        /\ (pc = "check" /\ db' # db)
              => /\ c \in DOMAIN db /\ valid
                 /\ db[c].Status # natural
                 /\ update
                 /\ db[c].Status \notin NON_UPDATE_STATUSES
                 /\ ~C4_NamesDiffer(db[c], rec)
                 /\ db' = [db EXCEPT ![c] =
                             Row(rec.first_name, rec.last_name, rec.address,
                                 rec.license_end, rec.license_class,
                                 natural, DateString(now.day))]
        /\ (pc = "check" /\ c \notin DOMAIN db)
              => db' = db /\ status_log' = status_log /\ mismatch_log' = mismatch_log

\* C10: the status audit does the above, naturalStatus being License Expired
\* exactly when the licenseEnd is before the current date.
C10_AuditByDate == [][AuditDoes(NaturalStatusByDate(parsed_data[1], now))]_vars

\* The status the program expects at lines 210 and 322: License Expired when
\* midnight of the licenseEnd is before the current moment.
StatusByMoment(callsign, t) == ExpectedStatus(callsign.license_end, t)

\* C10, read with the status the program computes: the audit does the above.
C10_AuditByMoment == [][AuditDoes(StatusByMoment(parsed_data[1], now))]_vars

\* C11: every connection a reconciliation opens (in the update pass, the
\* status audit, the update the audit calls, the deactivation) is closed when
\* the call returns, on every path: at any time between two calls the only
\* connection that can be open is the one refresh_database holds for its loop.
C11_ConnectionsReleased ==
    /\ Len(conns) <= 1
    /\ \A i \in DOMAIN conns : conns[i] = "refresh_database" /\ mode = "refresh"
    /\ pc = "idle" => conns = <<>>

\* C11: in a refresh run the audit found a discrepancy and called the update,
\* which flagged a mismatch, while the connection of the audit and that of
\* refresh_database were open; only the latter still is.
C11_Witness ==
    /\ pc = "update" /\ mode = "refresh" /\ update /\ checkstatus
    /\ status_log # <<>> /\ mismatch_log # <<>>
    /\ conns = <<"refresh_database">>

\* The fields a response is asked for.
Fields == {FNAME, NAME, CLASS, EXPDATE, ADDR1}

\* The response that was received.
Response == callsign_data[1]

\* C12: for every response and field, extract_xml_value returns the text
\* between the start marker and the end marker when both are in the text, and
\* None when either is missing.
C12_ExtractsOrAbsent ==
    pc \in {"parsed", "raised"} =>
        \A field \in Fields :
            LET start == Find(Response, StartMarker(field))
                end   == Find(Response, EndMarker(field))
            IN  extract_xml_value(Response, field) =
                    IF start # -1 /\ end # -1
                    THEN Present(Slice(Response, start + Len(StartMarker(field)), end))
                    ELSE Absent

\* The field is whole in the text or not in it at all.
WellFormed(text, field) ==
    LET start == Find(text, StartMarker(field))
        end   == Find(text, EndMarker(field))
    IN  (start = -1 /\ end = -1) \/ (start # -1 /\ start < end)

\* C13: when the first-name field or the last-name field of a response
\* carries text, parse_callsign_data returns a record whose first name and
\* last name are not empty.
C13_NamesNeverEmpty ==
    (/\ pc \in {"parsed", "raised"}
     /\ WellFormed(Response, FNAME) /\ WellFormed(Response, NAME)
     /\ \/ Truthy(extract_xml_value(Response, FNAME))
        \/ Truthy(extract_xml_value(Response, NAME)))
        => /\ pc = "parsed"
           /\ parsed_data[1].first_name # <<>>
           /\ parsed_data[1].last_name # <<>>

\* The class codes of the service and some that are none of them.
ClassCodes == {"E", "G", "T", "A", "C", "X", "e", "", NoCode}

\* C14 as stated: the license class of every parsed record is one of Extra,
\* General, Technician, Advanced, Club, Unknown.
C14_AsStated ==
    pc = "parsed" =>
        parsed_data[1].license_class \in
            {"Extra", "General", "Technician", "Advanced", "Club", "Unknown"}

\* C14, amended: the license class of every parsed record is one of Extra,
\* General, Technician, Advanced, Club, Unknown Class; the codes E, G, T, A, C
\* map to their class and every other code, the absent one too, to
\* Unknown Class.
C14_ClassInEnumeration ==
    /\ pc = "parsed" =>
          /\ parsed_data[1].license_class \in
                 {"Extra", "General", "Technician", "Advanced", "Club", "Unknown Class"}
          /\ extract_xml_value(Response, CLASS) \notin {Present(<<"G">>)}
                 => parsed_data[1].license_class = "Unknown Class"
          /\ extract_xml_value(Response, CLASS) = Present(<<"G">>)
                 => parsed_data[1].license_class = "General"
    /\ \A code \in ClassCodes :
          map_license_class(code) =
              CASE code = "E" -> "Extra"
                [] code = "G" -> "General"
                [] code = "T" -> "Technician"
                [] code = "A" -> "Advanced"
                [] code = "C" -> "Club"
                [] OTHER -> "Unknown Class"

\* C14: a record parsed from a response whose class code is X, which is no
\* code of the service.
C14_Witness ==
    /\ pc = "parsed"
    /\ extract_xml_value(Response, CLASS) = Present(<<"X">>)
    /\ parsed_data[1].license_class = "Unknown Class"

\* The row holds the fields of the fetched record: it was written from it.
WrittenFrom(row, callsign) ==
    /\ row.FirstName = callsign.first_name
    /\ row.LastName = callsign.last_name
    /\ row.Address = callsign.address
    /\ row.LicExp = callsign.license_end
    /\ row.Class = callsign.license_class

\* C15: an update pass that finds the record it inserted as New from the same
\* fetched record, or the record it wrote from it, flags no mismatch and
\* leaves the status naturalStatus; and when the record already has that
\* status and was written on the same date, the pass leaves it as it is.
C15_NextPassUpdates ==
    [][(/\ UpdatePass
        /\ cleaned_callsign[1] \in DOMAIN db
        /\ WrittenFrom(db[cleaned_callsign[1]], parsed_data[1])
        /\ db[cleaned_callsign[1]].Status
               \in {"New", NaturalStatusByDate(parsed_data[1], now)})
          => /\ mismatch_log' = mismatch_log
             /\ db'[cleaned_callsign[1]].Status = NaturalStatusByDate(parsed_data[1], now)
             /\ (/\ db[cleaned_callsign[1]].Status # "New"
                 /\ db[cleaned_callsign[1]].Updated = DateString(now.day))
                    => db' = db]_vars

\* C16: every entry appended to the mismatch log names the first names
\* exactly when they differ in the form the match is decided on, names the
\* last names exactly when they differ without regard to case, and names at
\* least one of the two.
C16_ReportNamesTheCause ==
    [][\A i \in (Len(mismatch_log) + 1)..Len(mismatch_log') :
          /\ mismatch_log'[i].first
                 = ~FirstNamesMatch(db[parsed_data[1].call], parsed_data[1])
          /\ mismatch_log'[i].last
                 = (StrLower(db[parsed_data[1].call].LastName)
                        # StrLower(parsed_data[1].last_name))
          /\ mismatch_log'[i].first \/ mismatch_log'[i].last]_vars

\* C17: the logs are empty before the first run, and the reconciliation of
\* one identifier appends at most one entry to each of them: neither log
\* ever holds more entries than identifiers were reconciled.
C17_OneEntryPerIdentifier ==
    /\ Len(mismatch_log) <= calls
    /\ Len(status_log) <= calls

\* C18: in a run, whatever its mode, one session key was obtained and the
\* lookups of the run were all made with it.
C18_OneSessionKey ==
    pc # "idle" =>
        /\ Len(session_keys) = 1
        /\ lookup_keys \subseteq {session_keys[1]}

\* C19: no step of a refresh run with --update changes the set of the stored
\* identifiers.
C19_RefreshKeepsIdentifiers ==
    [][(mode = "refresh" /\ update /\ pc # "idle")
          => DOMAIN db' = DOMAIN db]_vars
====
